---- MODULE Spec2Model ----
(***************************************************************************)
(* Model of aider/advisors.py (class AdvisorManager).                      *)
(*                                                                         *)
(* Text is modelled as a sequence of tokens.  A classifier reply is a      *)
(* sequence over ReplyTokens: the two braces, a whitespace token, a prose  *)
(* word, and tokens that each stand for a well-formed JSON member list.    *)
(* A persona file is a sequence of tokens as well, so that two writers     *)
(* overwriting each other at offset 0 can be told apart token by token.    *)
(***************************************************************************)
EXTENDS Integers, Sequences, FiniteSets, TLC

(* ------------------------------ bounds --------------------------------- *)
\* longest classifier reply, in tokens, of the specification SpecIdentify
MaxReplyLen == 5
\* longest classifier reply, in tokens, drawn by get_persona in Spec
MaxClassifierLen == 3
\* longest persona-authoring reply, in tokens
MaxPersonaLen == 2
\* number of generate_advice calls of the specification SpecAdvice
MaxAdviceCalls == 3

(* ------------------------------ values --------------------------------- *)
\* Python's None
None == "<None>"
\* a path at which nothing exists
NoFile == <<"<absent>">>

LB == "{"
RB == "}"
WS == " "
WORD == "w"
\* tokens standing for the member list between the braces of a JSON object
MemberTokens == {"m_sec", "m_nopt", "m_null", "m_dir"}
ReplyTokens == {LB, RB, WS, WORD} \cup MemberTokens

\* the dict that json.loads builds from a member list ("has_*": key present)
Members(tok) ==
    CASE tok = "m_sec"  -> [has_pt |-> TRUE,  pt |-> "security",
                            has_sf |-> TRUE,  sf |-> "docs/personas/security.md"]
      [] tok = "m_nopt" -> [has_pt |-> FALSE, pt |-> None,
                            has_sf |-> TRUE,  sf |-> "persona.md"]
      [] tok = "m_null" -> [has_pt |-> TRUE,  pt |-> "SQL",
                            has_sf |-> TRUE,  sf |-> None]
      [] tok = "m_dir"  -> [has_pt |-> TRUE,  pt |-> "security",
                            has_sf |-> TRUE,  sf |-> "docs"]
\* the dict of the empty object {}
EmptyDict == [has_pt |-> FALSE, pt |-> None, has_sf |-> FALSE, sf |-> None]

SeqsUpTo(S, n) == UNION {[1..k -> S] : k \in 0..n}

(* --------------------------- reply handling ---------------------------- *)
\* a model reply: a dict (with or without a "content" key) or anything else
Responses(texts) ==
    {[kind |-> "dict", has_content |-> TRUE, text |-> t] : t \in texts}
    \cup {[kind |-> "str", has_content |-> FALSE, text |-> t] : t \in texts}
    \cup {[kind |-> "dict", has_content |-> FALSE, text |-> <<>>]}

\* if isinstance(response, dict): response.get("content", "") else str(response)
ExtractContent(response) ==
    IF response.kind = "dict"
    THEN IF response.has_content THEN response.text ELSE <<>>
    ELSE response.text

RECURSIVE LStrip(_)
LStrip(s) == IF s # <<>> /\ Head(s) = WS THEN LStrip(Tail(s)) ELSE s
RECURSIVE RStrip(_)
RStrip(s) ==
    IF s # <<>> /\ s[Len(s)] = WS THEN RStrip(SubSeq(s, 1, Len(s) - 1)) ELSE s
Strip(s) == RStrip(LStrip(s))

\* json.loads: whitespace, one object, whitespace; anything else is a
\* JSONDecodeError (ok = FALSE)
json_loads(s) ==
    LET t == Strip(s)
        inner == Strip(SubSeq(t, 2, Len(t) - 1))
    IN  IF Len(t) >= 2 /\ t[1] = LB /\ t[Len(t)] = RB
        THEN IF inner = <<>>
             THEN [ok |-> TRUE, value |-> EmptyDict]
             ELSE IF Len(inner) = 1 /\ inner[1] \in MemberTokens
                  THEN [ok |-> TRUE, value |-> Members(inner[1])]
                  ELSE [ok |-> FALSE, value |-> EmptyDict]
        ELSE [ok |-> FALSE, value |-> EmptyDict]

Min(S) == CHOOSE x \in S : \A y \in S : x <= y
Max(S) == CHOOSE x \in S : \A y \in S : x >= y

\* re.search(r'({.*})', content, re.DOTALL): leftmost "{" that has a "}"
\* after it, then greedily up to the last "}"
re_search_dropbrace(s) ==
    LET opens  == {i \in 1..Len(s) : s[i] = LB}
        closes == {j \in 1..Len(s) : s[j] = RB}
    IN  IF opens # {} /\ closes # {} /\ Min(opens) < Max(closes)
        THEN [found |-> TRUE, group |-> SubSeq(s, Min(opens), Max(closes) - 1)]
        ELSE [found |-> FALSE, group |-> <<>>]
re_search(s) ==
    LET opens  == {i \in 1..Len(s) : s[i] = LB}
        closes == {j \in 1..Len(s) : s[j] = RB}
    IN  IF opens # {} /\ closes # {} /\ Min(opens) < Max(closes)
        THEN [found |-> TRUE, group |-> SubSeq(s, Min(opens), Max(closes))]
        ELSE [found |-> FALSE, group |-> <<>>]

Call(op, arg) == [op |-> op, arg |-> arg]

\* persona_info.get("persona_type", "advisor"), persona_info.get("suggested_file")
Returned(info, calls) ==
    [kind |-> "return",
     persona_type |-> IF info.has_pt THEN info.pt ELSE "advisor",
     suggested_file |-> IF info.has_sf THEN info.sf ELSE None,
     exc |-> None, calls |-> calls]
Raised(exc, calls) ==
    [kind |-> "raise", persona_type |-> None, suggested_file |-> None,
     exc |-> exc, calls |-> calls]

\* AdvisorManager.identify_persona, from the model's reply on
identify_persona(response) ==
    LET content == ExtractContent(response)
        start   == <<Call("tool_output", <<"Analyzing your question">>)>>
        direct  == json_loads(content)
        match   == re_search(content)
        second  == json_loads(match.group)
    IN  IF direct.ok THEN Returned(direct.value, start)
        ELSE IF match.found
             THEN IF second.ok THEN Returned(second.value, start)
                  ELSE Raised("JSONDecodeError", start)
             ELSE Raised("JSONDecodeError",
                         start \o <<Call("tool_error", <<"Error parsing persona information">>),
                                    Call("tool_output", <<"Response content:">>),
                                    Call("tool_output", content)>>)

(* ----------------------------- filesystem ----------------------------- *)
SecurityPath == "docs/personas/security.md"
BarePath == "persona.md"
DirPath == "docs"
FilePaths == {SecurityPath, BarePath, DirPath}

\* os.path.dirname
dirname(path) ==
    CASE path = "docs/personas/security.md" -> "docs/personas"
      [] path = "docs/personas" -> "docs"
      [] OTHER -> ""

\* the directory and every directory above it
RECURSIVE Ancestors(_)
Ancestors(d) == IF d = "" THEN {} ELSE {d} \cup Ancestors(dirname(d))

IsFile(fs, path) == path \in DOMAIN fs /\ fs[path] # NoFile

\* os.path.exists: true of files and of directories
os_path_exists(ds, fs, path) == path \in ds \/ IsFile(fs, path)

\* str.title() on the persona types of the model
Title(persona_type) ==
    CASE persona_type = "security" -> "Security"
      [] persona_type = "SQL" -> "Sql"
      [] persona_type = "advisor" -> "Advisor"

\* f"# {persona_type.title()} Advisor Persona\n\n"
TitleLine(persona_type) == <<"# ", Title(persona_type), " Advisor Persona\n\n">>

\* os.makedirs(name, exist_ok=True): the exception it raises, or None
makedirs_error(ds, fs, canwrite, name) ==
    IF name = "" THEN "FileNotFoundError"
    ELSE IF \E d \in Ancestors(name) : IsFile(fs, d) THEN "FileExistsError"
    ELSE IF Ancestors(name) \subseteq ds THEN None
    ELSE IF ~canwrite THEN "PermissionError"
    ELSE None

\* open(file_path, 'w'): the exception it raises, or None
open_w_error(ds, fs, canwrite, path) ==
    IF path \in ds THEN "IsADirectoryError"
    ELSE IF dirname(path) # "" /\ dirname(path) \notin ds THEN "FileNotFoundError"
    ELSE IF ~canwrite THEN "PermissionError"
    ELSE None

\* the file after data is written at offset 0 over what is there
Overwrite(old, data) ==
    IF Len(data) >= Len(old) THEN data
    ELSE data \o SubSeq(old, Len(data) + 1, Len(old))

\* AdvisorManager.get_persona_content: the text, or None with a reported error
get_persona_content(ds, fs, path) ==
    IF IsFile(fs, path)
    THEN [is_none |-> FALSE, text |-> fs[path], ops |-> <<"open_r">>]
    ELSE [is_none |-> TRUE, text |-> <<>>, ops |-> <<"open_r", "tool_error">>]

(* ----------------------------- get_persona ----------------------------- *)
Invocations == {1, 2}

\* what get_persona returns or raises
Pending == [kind |-> "pending", content |-> <<>>, persona_type |-> None]
Sentinel == [kind |-> "none", content |-> <<>>, persona_type |-> None]
Value(content, persona_type) ==
    [kind |-> "value", content |-> content, persona_type |-> persona_type]
Raise(exc) == [kind |-> "raise", content |-> <<>>, persona_type |-> exc]

PersonaReplies == SeqsUpTo({"a", "b"}, MaxPersonaLen)
ExistingContents == {<<>>, <<"x">>}

RECURSIVE OpsOf(_)
OpsOf(calls) == IF calls = <<>> THEN <<>> ELSE <<Head(calls).op>> \o OpsOf(Tail(calls))

\* the outcomes of identify_persona over the classifier replies of Spec
ClassifierOutcomes ==
    {[kind |-> r.kind, persona_type |-> r.persona_type,
      suggested_file |-> r.suggested_file, exc |-> r.exc, ops |-> OpsOf(r.calls)] :
        r \in {identify_persona(resp) :
                 resp \in Responses(SeqsUpTo(ReplyTokens, MaxClassifierLen))}}

VARIABLES id_pc, id_response, id_out,
          dirs, files, writable,
          pc, persona_type, suggested_file, content, buf, result, log,
          cur_messages, advice_session, advice_ret, ga_calls

fs_vars == <<dirs, files, writable>>
gp_vars == <<pc, persona_type, suggested_file, content, buf, result, log>>
ga_vars == <<cur_messages, advice_session, advice_ret, ga_calls>>

id_vars == <<id_pc, id_response, id_out>>

\* the variables of SpecIdentify while another specification runs
IdentifyIdle ==
    /\ id_pc = "idle"
    /\ id_response = [kind |-> "str", has_content |-> FALSE, text |-> <<>>]
    /\ id_out = Raised(None, <<>>)

\* the filesystems a get_persona call can find
FsInit ==
    /\ writable \in BOOLEAN
    /\ dirs \in {{}, {"docs"}, {"docs", "docs/personas"}}
    /\ files \in [FilePaths -> {NoFile} \cup ExistingContents]
    /\ files[DirPath] = NoFile
    /\ IsFile(files, SecurityPath) => dirname(SecurityPath) \in dirs

GetPersonaInit ==
    /\ pc = [p \in Invocations |-> "start"]
    /\ persona_type = [p \in Invocations |-> None]
    /\ suggested_file = [p \in Invocations |-> None]
    /\ content = [p \in Invocations |-> <<>>]
    /\ buf = [p \in Invocations |-> <<>>]
    /\ result = [p \in Invocations |-> Pending]
    /\ log = [p \in Invocations |-> <<>>]

Finish(p, res, ops) ==
    /\ pc' = [pc EXCEPT ![p] = "done"]
    /\ result' = [result EXCEPT ![p] = res]
    /\ log' = [log EXCEPT ![p] = @ \o ops]

\* an exception leaves get_persona
Propagate(p, exc, ops) ==
    /\ pc' = [pc EXCEPT ![p] = "raised"]
    /\ result' = [result EXCEPT ![p] = Raise(exc)]
    /\ log' = [log EXCEPT ![p] = @ \o ops]

Goto(p, label, ops) ==
    /\ pc' = [pc EXCEPT ![p] = label]
    /\ log' = [log EXCEPT ![p] = @ \o ops]
    /\ UNCHANGED result

\* "if not suggested_file": None and the empty string
NotSuggested_never(sf) == FALSE
NotSuggested(sf) == sf = None \/ sf = ""

\* "if not self.io.confirm_ask(...)"
Declined_never(answer) == FALSE
Declined(answer) == ~answer

\* "if not persona_content": None and the empty text
NotContent(is_none, text) == is_none \/ text = <<>>

\* get_persona: identify_persona and the check of its suggested file
Classify(p) ==
    /\ pc[p] = "start"
    /\ \E r \in ClassifierOutcomes :
         IF r.kind = "raise"
         THEN /\ Propagate(p, r.exc, r.ops)
              /\ UNCHANGED <<persona_type, suggested_file>>
         ELSE /\ persona_type' = [persona_type EXCEPT ![p] = r.persona_type]
              /\ suggested_file' = [suggested_file EXCEPT ![p] = r.suggested_file]
              /\ IF NotSuggested(r.suggested_file)
                 THEN Finish(p, Sentinel, r.ops \o <<"tool_error">>)
                 ELSE Goto(p, "exists", r.ops)
    /\ UNCHANGED <<fs_vars, content, buf>>

\* get_persona: the os.path.exists branch
PathExists_inverted(p) ==
    /\ pc[p] = "exists"
    /\ IF os_path_exists(dirs, files, suggested_file[p])
       THEN Goto(p, "confirm", <<"exists:T", "tool_output", "tool_output">>)
       ELSE Goto(p, "load", <<"exists:F", "tool_output">>)
    /\ UNCHANGED <<fs_vars, persona_type, suggested_file, content, buf>>
PathExists(p) ==
    /\ pc[p] = "exists"
    /\ IF os_path_exists(dirs, files, suggested_file[p])
       THEN Goto(p, "load", <<"exists:T", "tool_output">>)
       ELSE Goto(p, "confirm", <<"exists:F", "tool_output", "tool_output">>)
    /\ UNCHANGED <<fs_vars, persona_type, suggested_file, content, buf>>

\* get_persona: the existing file is read and returned
Load(p) ==
    /\ pc[p] = "load"
    /\ LET r == get_persona_content(dirs, files, suggested_file[p])
       IN  IF NotContent(r.is_none, r.text)
           THEN Finish(p, Sentinel, r.ops)
           ELSE Finish(p, Value(r.text, persona_type[p]), r.ops)
    /\ UNCHANGED <<fs_vars, persona_type, suggested_file, content, buf>>

\* get_persona: the user is asked whether to create the persona
Confirm(p) ==
    /\ pc[p] = "confirm"
    /\ \E answer \in BOOLEAN :
         IF Declined(answer)
         THEN Finish(p, Sentinel, <<IF answer THEN "confirm:T" ELSE "confirm:F",
                                    "tool_output">>)
         ELSE Goto(p, "create", <<IF answer THEN "confirm:T" ELSE "confirm:F">>)
    /\ UNCHANGED <<fs_vars, persona_type, suggested_file, content, buf>>

\* create_persona: the persona-authoring session and its reply
CreateRun(p) ==
    /\ pc[p] = "create"
    /\ \E response \in Responses(PersonaReplies) :
         content' = [content EXCEPT ![p] = ExtractContent(response)]
    /\ Goto(p, "makedirs", <<"create_persona", "tool_output">>)
    /\ UNCHANGED <<fs_vars, persona_type, suggested_file, buf>>

\* create_persona: os.makedirs(os.path.dirname(file_path), exist_ok=True)
Makedirs(p) ==
    /\ pc[p] = "makedirs"
    /\ LET name == dirname(suggested_file[p])
           exc  == makedirs_error(dirs, files, writable, name)
       IN  IF exc # None
           THEN /\ Propagate(p, exc, <<"makedirs">>)
                /\ UNCHANGED dirs
           ELSE /\ Goto(p, "open", <<"makedirs">>)
                /\ dirs' = dirs \cup Ancestors(name)
    /\ UNCHANGED <<files, writable, persona_type, suggested_file, content, buf>>

\* create_persona: open(file_path, 'w') truncates; the two writes are buffered
Open(p) ==
    /\ pc[p] = "open"
    /\ LET exc == open_w_error(dirs, files, writable, suggested_file[p])
       IN  IF exc # None
           THEN /\ Propagate(p, exc, <<"open_w">>)
                /\ UNCHANGED <<files, buf>>
           ELSE /\ Goto(p, "close", <<"open_w", "write", "write">>)
                /\ files' = [files EXCEPT ![suggested_file[p]] = <<>>]
                /\ buf' = [buf EXCEPT ![p] = TitleLine(persona_type[p]) \o content[p]]
    /\ UNCHANGED <<dirs, writable, persona_type, suggested_file, content>>

\* create_persona: leaving the with block flushes the buffer at offset 0 and
\* returns the reply; get_persona then returns
Close(p) ==
    /\ pc[p] = "close"
    /\ files' = [files EXCEPT ![suggested_file[p]] = Overwrite(@, buf[p])]
    /\ IF NotContent(FALSE, content[p])
       THEN Finish(p, Sentinel, <<"flush", "tool_output">>)
       ELSE Finish(p, Value(content[p], persona_type[p]), <<"flush", "tool_output">>)
    /\ UNCHANGED <<dirs, writable, persona_type, suggested_file, content, buf>>

GetPersonaNext ==
    \E p \in Invocations :
        \/ Classify(p)
        \/ PathExists(p)
        \/ Load(p)
        \/ Confirm(p)
        \/ CreateRun(p)
        \/ Makedirs(p)
        \/ Open(p)
        \/ Close(p)


Replies == SeqsUpTo(ReplyTokens, MaxReplyLen)

(* --------------------------- generate_advice --------------------------- *)
PersonaTypes == {"security", "SQL", "advisor"}
AdviceTexts == SeqsUpTo({"a", "b"}, 1)
Questions == {<<"q">>}
PersonaContents == {<<"x">>, TitleLine("security") \o <<"a">>}

Message(role, text) == [role |-> role, content |-> text]

\* AdvisorManager.create_advice_prompt
create_advice_prompt(persona, question) ==
    <<"You are an advisor with the following persona:">> \o persona
    \o <<"Please answer this question from the perspective of your persona:">>
    \o question \o <<"Provide a thoughtful, detailed response">>

\* Coder.create(from_coder=...): the conversation of the new session
CoderCreate(from_messages) == <<>>

\* the two entries generate_advice adds to the chat history
AdviceEntries(ptype, advice) ==
    <<Message("user", <<"Advice from ", ptype, " advisor persona:\n\n">> \o advice),
      Message("assistant", <<"I've provided advice based on the requested persona.">>)>>

\* the variables of SpecAdvice while another specification runs
AdviceIdle ==
    /\ cur_messages = <<>>
    /\ advice_session = <<>>
    /\ advice_ret = <<>>
    /\ ga_calls = 0

AdviceInit ==
    /\ cur_messages \in {<<>>, <<Message("user", <<"hi">>)>>,
                         <<Message("user", <<"hi">>), Message("assistant", <<"ok">>)>>}
    /\ advice_session = <<>>
    /\ advice_ret = <<>>
    /\ ga_calls = 0

\* AdvisorManager.generate_advice
GenerateAdvice_replace ==
    /\ ga_calls < MaxAdviceCalls
    /\ \E persona \in PersonaContents, ptype \in PersonaTypes,
          question \in Questions, response \in Responses(AdviceTexts) :
         LET advice_prompt == create_advice_prompt(persona, question)
             advice == ExtractContent(response)
         IN  /\ advice_session' =
                    Append(CoderCreate(cur_messages), Message("user", advice_prompt))
             /\ cur_messages' = AdviceEntries(ptype, advice)
             /\ advice_ret' = advice
    /\ ga_calls' = ga_calls + 1
    /\ UNCHANGED <<id_vars, fs_vars, gp_vars>>
GenerateAdvice ==
    /\ ga_calls < MaxAdviceCalls
    /\ \E persona \in PersonaContents, ptype \in PersonaTypes,
          question \in Questions, response \in Responses(AdviceTexts) :
         LET advice_prompt == create_advice_prompt(persona, question)
             advice == ExtractContent(response)
         IN  /\ advice_session' =
                    Append(CoderCreate(cur_messages), Message("user", advice_prompt))
             /\ cur_messages' = cur_messages \o AdviceEntries(ptype, advice)
             /\ advice_ret' = advice
    /\ ga_calls' = ga_calls + 1
    /\ UNCHANGED <<id_vars, fs_vars, gp_vars>>

\* the filesystem variables while another specification runs
FsIdle == dirs = {} /\ files = [f \in FilePaths |-> NoFile] /\ writable = TRUE

IdentifyInit ==
    /\ FsIdle
    /\ GetPersonaInit
    /\ AdviceIdle
    /\ id_pc = "start"
    /\ id_response \in Responses(Replies)
    /\ id_out = Raised(None, <<>>)

IdentifyCall ==
    /\ id_pc = "start"
    /\ id_out' = identify_persona(id_response)
    /\ id_pc' = "done"
    /\ UNCHANGED <<id_response, fs_vars, gp_vars, ga_vars>>

vars == <<id_vars, fs_vars, gp_vars, ga_vars>>
Init == IdentifyIdle /\ AdviceIdle /\ FsInit /\ GetPersonaInit
Next == GetPersonaNext /\ UNCHANGED <<id_vars, ga_vars>>
Spec == Init /\ [][Next]_vars
SpecIdentify == IdentifyInit /\ [][IdentifyCall]_vars

AdviceSpecInit == IdentifyIdle /\ FsIdle /\ GetPersonaInit /\ AdviceInit
SpecAdvice == AdviceSpecInit /\ [][GenerateAdvice]_vars

(* ------------------------------ properties ----------------------------- *)
HasOp(p, op) == \E i \in DOMAIN log[p] : log[p][i] = op
Stepped(p) == log'[p] # log[p]
Finished(p) == pc[p] \in {"done", "raised"}

\* what create_persona does to the filesystem, and what leads to it
CreateOps == {"create_persona", "makedirs", "open_w", "write", "flush"}
ConfirmOps == {"confirm:T", "confirm:F"}
\* every access to the filesystem or prompt made after classification
FileOps == {"exists:T", "exists:F", "open_r"} \cup ConfirmOps \cup CreateOps

C1_State ==
    \A p \in Invocations :
        /\ \A i \in DOMAIN log[p] :
              log[p][i] \in CreateOps => \E j \in 1..(i - 1) : log[p][j] = "confirm:T"
        /\ HasOp(p, "confirm:F") =>
              /\ HasOp(p, "exists:F")
              /\ pc[p] = "done"
              /\ result[p] = Sentinel
              /\ \A i \in DOMAIN log[p] : log[p][i] \notin CreateOps
C1_Step ==
    \A p \in Invocations :
        (Stepped(p) /\ HasOp(p, "confirm:F")') => (dirs' = dirs /\ files' = files)
\* C1: an invocation that found the suggested file absent and whose user
\* declined returns (None, None) and has made no create_persona call, no
\* directory and no write; its steps leave the filesystem as it was; every
\* create/write operation of an invocation comes after a "yes" of its own.
C1_DeclineLeavesFilesystem == []C1_State /\ [][C1_Step]_vars
C1_Witness ==
    \E p \in Invocations :
        /\ HasOp(p, "exists:F") /\ HasOp(p, "confirm:F")
        /\ pc[p] = "done" /\ result[p] = Sentinel

C2_State ==
    \A p \in Invocations :
        HasOp(p, "exists:T") =>
            \A i \in DOMAIN log[p] : log[p][i] \notin (ConfirmOps \cup CreateOps)
C2_Step ==
    \A p \in Invocations :
        (Stepped(p) /\ HasOp(p, "exists:T")') => (dirs' = dirs /\ files' = files)
\* C2: an invocation whose suggested file existed when it checked never asks
\* for confirmation and never runs create_persona, and none of its steps
\* changes a file or a directory.
C2_ExistingPersonaNotWritten == []C2_State /\ [][C2_Step]_vars
C2_Witness ==
    \E p \in Invocations :
        /\ HasOp(p, "exists:T") /\ pc[p] = "done"
        /\ result[p] = Value(files[suggested_file[p]], persona_type[p])

\* identify_persona has returned in invocation p
Classified(p) == pc[p] # "start" /\ ~(pc[p] = "raised" /\ ~HasOp(p, "exists:T") /\ ~HasOp(p, "exists:F"))
\* C3: once identify_persona has returned a null suggested file, get_persona
\* has reported an error, returned (None, None) and made no existence check,
\* read, confirmation prompt, directory creation or write.
C3_NullSuggestionNoIO ==
    \A p \in Invocations :
        (Classified(p) /\ suggested_file[p] = None) =>
            /\ pc[p] = "done"
            /\ result[p] = Sentinel
            /\ log[p] # <<>> /\ log[p][Len(log[p])] = "tool_error"
            /\ \A i \in DOMAIN log[p] : log[p][i] \notin FileOps
C3_Witness ==
    \E p \in Invocations :
        /\ pc[p] = "done" /\ persona_type[p] = "SQL" /\ suggested_file[p] = None
        /\ result[p] = Sentinel

C4_Step ==
    LET n == Len(cur_messages)
    IN  /\ Len(cur_messages') = n + 2
        /\ SubSeq(cur_messages', 1, n) = cur_messages
        /\ cur_messages'[n + 1].role = "user"
        /\ \E ptype \in PersonaTypes :
              cur_messages'[n + 1].content =
                  <<"Advice from ", ptype, " advisor persona:\n\n">> \o advice_ret'
        /\ cur_messages'[n + 2].role = "assistant"
\* C4: every generate_advice call adds exactly two entries at the end of the
\* caller's history, a user entry holding the returned advice after the
\* persona-type prefix, then an assistant acknowledgment; the entries that
\* were there stay, in order, as a prefix.
C4_AppendsTwoEntries == [][C4_Step]_vars
C4_Witness ==
    /\ ga_calls >= 2
    /\ advice_ret = <<>>
    /\ Len(cur_messages) = 2 * ga_calls + 1
    /\ cur_messages[1] = Message("user", <<"hi">>)

C5_Step ==
    \A p \in Invocations :
        (pc[p] = "close" /\ pc'[p] = "done") =>
            LET read == get_persona_content(dirs', files', suggested_file[p])
            IN  ~read.is_none /\ read.text = content[p]
\* C5: what create_persona returns is what get_persona_content reads from
\* the same path right after.
C5_RoundTrip == [][C5_Step]_vars

\* C6: when neither the reply nor its regex-extracted brace substring
\* parses, identify_persona raises and has called tool_error and then shown
\* the raw reply.
C6_ParseFailureReported ==
    id_pc = "done" =>
        LET reply == ExtractContent(id_response)
            match == re_search(reply)
            calls == id_out.calls
        IN  (~json_loads(reply).ok /\ ~(match.found /\ json_loads(match.group).ok)) =>
                /\ id_out.kind = "raise"
                /\ \E i, j \in DOMAIN calls :
                      /\ i < j
                      /\ calls[i].op = "tool_error"
                      /\ calls[j] = Call("tool_output", reply)

RECURSIVE BalancedEnd(_, _, _)
\* scanning s from index j at nesting depth d: the index at which the depth
\* comes back to 0 (0: never)
BalancedEnd(s, j, d) ==
    IF j > Len(s) THEN 0
    ELSE IF s[j] = LB THEN BalancedEnd(s, j + 1, d + 1)
    ELSE IF s[j] = RB THEN (IF d = 1 THEN j ELSE BalancedEnd(s, j + 1, d - 1))
    ELSE BalancedEnd(s, j + 1, d)
\* the first top-level brace-delimited substring of s: from the first "{" to
\* the "}" that closes it (<<>>: none)
FirstBraceSpan(s) ==
    LET opens == {i \in 1..Len(s) : s[i] = LB}
    IN  IF opens = {} \/ BalancedEnd(s, Min(opens), 0) = 0 THEN <<>>
        ELSE SubSeq(s, Min(opens), BalancedEnd(s, Min(opens), 0))
HasBoth(parsed) == parsed.ok /\ parsed.value.has_pt /\ parsed.value.has_sf

\* C7 as stated: when the direct parse fails and the first top-level
\* brace-delimited substring of the reply is an object with persona_type and
\* suggested_file, identify_persona returns those two values.
C7_FirstBraceSpanUsed ==
    id_pc = "done" =>
        LET reply == ExtractContent(id_response)
            obj == json_loads(FirstBraceSpan(reply))
        IN  (~json_loads(reply).ok /\ HasBoth(obj)) =>
                /\ id_out.kind = "return"
                /\ id_out.persona_type = obj.value.pt
                /\ id_out.suggested_file = obj.value.sf

\* C7 (amended): when the direct parse fails and the reply is an object with
\* persona_type and suggested_file between prose that has no "{" before the
\* object and no "}" after it, identify_persona returns those two values.
C7_ObjectBetweenBraceFreeProse ==
    id_pc = "done" =>
        LET reply == ExtractContent(id_response)
        IN  \A i, j \in 1..Len(reply) :
                LET obj == json_loads(SubSeq(reply, i, j))
                IN  ( /\ ~json_loads(reply).ok
                      /\ i < j /\ reply[i] = LB /\ reply[j] = RB
                      /\ \A k \in 1..(i - 1) : reply[k] # LB
                      /\ \A k \in (j + 1)..Len(reply) : reply[k] # RB
                      /\ HasBoth(obj) ) =>
                    /\ id_out.kind = "return"
                    /\ id_out.persona_type = obj.value.pt
                    /\ id_out.suggested_file = obj.value.sf
C7_Witness ==
    /\ id_pc = "done"
    /\ id_out.kind = "return" /\ id_out.suggested_file = SecurityPath
    /\ LET reply == ExtractContent(id_response)
       IN  /\ ~json_loads(reply).ok
           /\ reply[1] = WORD /\ reply[Len(reply)] = WORD

\* C8: when two invocations were classified to the same absent path and both
\* confirmed, then once both are over neither has raised and the file holds
\* exactly what one of them wrote.
C8_LastWriterWins ==
    \A p, q \in Invocations :
        ( /\ p # q /\ writable
          /\ Finished(p) /\ Finished(q)
          /\ suggested_file[p] = suggested_file[q]
          /\ HasOp(p, "exists:F") /\ HasOp(q, "exists:F")
          /\ HasOp(p, "confirm:T") /\ HasOp(q, "confirm:T") ) =>
            /\ result[p].kind # "raise" /\ result[q].kind # "raise"
            /\ files[suggested_file[p]] \in {buf[p], buf[q]}

\* get_persona_content returned None in invocation p
LoaderNull(p) ==
    \E i \in DOMAIN log[p] :
        log[p][i] = "open_r" /\ i < Len(log[p]) /\ log[p][i + 1] = "tool_error"
\* C9: a get_persona call that has returned gave (None, None) only when the
\* suggested file was null, the loader returned None or the user declined;
\* otherwise it gave (content, type), and never (None, None) after a write.
C9_SentinelOnlyOnErrorExits ==
    \A p \in Invocations :
        pc[p] = "done" =>
            /\ result[p] = Sentinel =>
                  \/ NotSuggested(suggested_file[p])
                  \/ LoaderNull(p)
                  \/ HasOp(p, "confirm:F")
            /\ HasOp(p, "flush") => result[p] = Value(content[p], persona_type[p])
            /\ result[p] # Sentinel => result[p].kind = "value"

\* C10: on a filesystem that takes writes, a create_persona call that is over
\* has not raised, every parent directory of its path exists and the path
\* holds a file, which is the title line and the reply when no other
\* invocation was given the same path.
C10_CreateWritesFile ==
    \A p \in Invocations :
        (writable /\ HasOp(p, "create_persona") /\ Finished(p)) =>
            /\ result[p].kind # "raise"
            /\ Ancestors(dirname(suggested_file[p])) \subseteq dirs
            /\ IsFile(files, suggested_file[p])
            /\ (\A q \in Invocations \ {p} : suggested_file[q] # suggested_file[p]) =>
                  files[suggested_file[p]] = TitleLine(persona_type[p]) \o content[p]
====
